---- MODULE Spec2Model ----
(***************************************************************************)
(* A model of nft_diff.py: the comment stripper, the alias normalizer with *)
(* its DNAT inference, the brace-scoped parser, the delta renderer and the *)
(* command line driver.                                                    *)
(*                                                                         *)
(* Text is a sequence of atoms.  An atom is a string standing for one      *)
(* character (" ", "\n", ";", "{", "}", ":", "[", "]") or for one          *)
(* indivisible word ("table", "counter", "80", "fd00::1", "\"DNAT\"").     *)
(* A Python str is the sequence of its atoms; "\n".join and splitlines     *)
(* work on the "\n" atoms as the Python methods do on the characters.      *)
(***************************************************************************)
EXTENDS Integers, Sequences, FiniteSets, TLC

VARIABLES pc, argv, reads, txt, glob_txt, comp_txt, base, comp,
          stdout, stderr, rc, norm1, norm2

vars == <<pc, argv, reads, txt, glob_txt, comp_txt, base, comp,
          stdout, stderr, rc, norm1, norm2>>

\* An Optional value is a sequence: empty for Python's None, <<v>> for v.
None == <<>>
Some(v) == <<v>>

\* The outcome of a call that may raise: empty for a raised ValueError,
\* <<v>> for the returned v.
ValueError == <<>>
Return(v) == <<v>>

----------------------------------------------------------------------------
(* Character classes of the regular expressions.                           *)

\* \s
IsSpace(a) == a \in {" ", "\t", "\n"}

\* [ \t]
IsBlank(a) == a \in {" ", "\t"}

\* Atoms whose first and last characters are not word characters.
PunctAtoms == {" ", "\t", "\n", ";", "{", "}", ":", "[", "]", "#", "//",
               "/*", "*/", "\"DNAT\"", "\"SNAT\"", "\"MASQUERADE\""}

\* Atoms made of digits only: \d+
NumAtoms == {"1", "2", "53", "80"}

\* Atoms that contain the character ':'.
ColonAtoms == {":", "fd00::1", "fd00::2"}

EdgeWord(a) == a \notin PunctAtoms

\* \b between positions i-1 and i of s (i in 1..Len(s)+1).
WordBoundary(s, i) ==
    LET l == IF i > 1 THEN EdgeWord(s[i - 1]) ELSE FALSE
        r == IF i <= Len(s) THEN EdgeWord(s[i]) ELSE FALSE
    IN  l # r

\* The first position >= i of s that holds no \s atom (Len(s)+1 if none).
RECURSIVE SkipSpace(_, _)
SkipSpace(s, i) ==
    IF i <= Len(s) /\ IsSpace(s[i]) THEN SkipSpace(s, i + 1) ELSE i

\* The first position >= i of s that holds a \s atom (Len(s)+1 if none).
RECURSIVE SkipNonSpace(_, _)
SkipNonSpace(s, i) ==
    IF i <= Len(s) /\ ~IsSpace(s[i]) THEN SkipNonSpace(s, i + 1) ELSE i

\* The first position >= i of s that holds no [ \t] atom.
RECURSIVE SkipBlank(_, _)
SkipBlank(s, i) ==
    IF i <= Len(s) /\ IsBlank(s[i]) THEN SkipBlank(s, i + 1) ELSE i

\* s[i:] of Python, for a 1-based position i.
From(s, i) == SubSeq(s, i, Len(s))

\* Python's `sub in s` for sequences of atoms.
Contains(s, sub) ==
    \E i \in 1..(Len(s) - Len(sub) + 1) : SubSeq(s, i, i + Len(sub) - 1) = sub

----------------------------------------------------------------------------
(* str methods.                                                            *)

RECURSIVE SplitNL(_, _, _)
SplitNL(s, i, cur) ==
    IF i > Len(s) THEN <<cur>>
    ELSE IF s[i] = "\n" THEN <<cur>> \o SplitNL(s, i + 1, <<>>)
    ELSE SplitNL(s, i + 1, Append(cur, s[i]))

\* str.splitlines(): the pieces between "\n", a last empty piece dropped.
splitlines(s) ==
    LET p == SplitNL(s, 1, <<>>)
    IN  IF p[Len(p)] = <<>> THEN SubSeq(p, 1, Len(p) - 1) ELSE p

\* "\n".join(lines)
RECURSIVE join(_)
join(lines) ==
    IF lines = <<>> THEN <<>>
    ELSE IF Len(lines) = 1 THEN lines[1]
    ELSE lines[1] \o <<"\n">> \o join(Tail(lines))

lstrip(s) == From(s, SkipSpace(s, 1))

RECURSIVE rstrip(_)
rstrip(s) ==
    IF s # <<>> /\ IsSpace(s[Len(s)]) THEN rstrip(SubSeq(s, 1, Len(s) - 1))
    ELSE s

strip(s) == lstrip(rstrip(s))

----------------------------------------------------------------------------
(* util functions                                                          *)

\* re.sub(r"/\*.*?\*/", "", text, flags=re.S)
RECURSIVE StripBlock(_, _)
StripBlock(s, i) ==
    IF i > Len(s) THEN <<>>
    ELSE IF s[i] = "/*" /\ \E j \in (i + 1)..Len(s) : s[j] = "*/"
         THEN LET j == CHOOSE j \in (i + 1)..Len(s) :
                           /\ s[j] = "*/"
                           /\ \A k \in (i + 1)..(j - 1) : s[k] # "*/"
              IN  StripBlock(s, j + 1)
         ELSE <<s[i]>> \o StripBlock(s, i + 1)

\* re.sub(r"\s*<mark>.*$", "", line): cut at the first mark and the
\* whitespace before it.
StripLineComment(line, mark) ==
    IF \E i \in 1..Len(line) : line[i] = mark
    THEN LET i == CHOOSE i \in 1..Len(line) :
                      line[i] = mark /\ \A k \in 1..(i - 1) : line[k] # mark
         IN  rstrip(SubSeq(line, 1, i - 1))
    ELSE line

strip_comments(text) ==
    LET no_block == StripBlock(text, 1)
        lines == splitlines(no_block)
    IN  join([k \in 1..Len(lines) |->
                StripLineComment(StripLineComment(lines[k], "//"), "#")])

\* re.sub(r"\s+", " ", s.strip())
RECURSIVE Collapse(_)
Collapse(s) ==
    IF s = <<>> THEN <<>>
    ELSE IF IsSpace(s[1])
         THEN <<" ">> \o Collapse(From(s, SkipSpace(s, 1)))
         ELSE <<s[1]>> \o Collapse(Tail(s))

normalize_spaces(s) == Collapse(strip(s))

normalize_rule(s) ==
    LET t == strip(s)
        u == IF t # <<>> /\ t[Len(t)] = ";" THEN SubSeq(t, 1, Len(t) - 1)
             ELSE t
    IN  normalize_spaces(u)

----------------------------------------------------------------------------
(* Cleaning and inference.                                                 *)

\* `\s+` from position i: the position after the whitespace, 0 if there is
\* none at i.
AfterSpaces(s, i) ==
    IF i <= Len(s) /\ IsSpace(s[i]) THEN SkipSpace(s, i) ELSE 0

\* s[i] = w, false outside s.
At(s, i, w) == i >= 1 /\ i <= Len(s) /\ s[i] = w

\* No "\n" in s[i..j]: what `.*?` may cross.
NoNewline(s, i, j) == \A k \in i..j : s[k] # "\n"

\* The target of an `xt target` expression, with or without its quotes.
KindOf(a) ==
    IF a \in {"\"DNAT\"", "DNAT"} THEN "DNAT"
    ELSE IF a \in {"\"SNAT\"", "SNAT"} THEN "SNAT"
    ELSE IF a \in {"\"MASQUERADE\"", "MASQUERADE"} THEN "MASQUERADE"
    ELSE "none"

\* xt_nat_re tried at position p: the match with its groups, or None.
XtMatchAt(s, p) ==
    LET t  == AfterSpaces(s, p + 1)
        k  == AfterSpaces(s, t + 1)
        a  == AfterSpaces(s, k + 1)
        b  == SkipSpace(s, a + 1)
        c  == SkipSpace(s, b + 1)
        NotDest(x) == IsSpace(x) \/ x = ";"
        e  == CHOOSE e \in c..(Len(s) + 1) :
                  /\ \A j \in c..(e - 1) : ~NotDest(s[j])
                  /\ (e > Len(s) \/ NotDest(s[e]))
        head  == /\ WordBoundary(s, p) /\ At(s, p, "xt")
                 /\ t > 0 /\ At(s, t, "target")
                 /\ k > 0 /\ k <= Len(s) /\ KindOf(s[k]) # "none"
        group == /\ a > 0 /\ At(s, a, "to") /\ At(s, b, ":")
                 /\ c <= Len(s) /\ e > c
        ahead == k + 1 > Len(s) \/ IsSpace(s[k + 1]) \/ s[k + 1] = ";"
    IN  IF head /\ group
        THEN Some([tgt |-> KindOf(s[k]), to |-> Some(SubSeq(s, c, e - 1)),
                   start |-> p, end |-> e])
        ELSE IF head /\ ahead
        THEN Some([tgt |-> KindOf(s[k]), to |-> None,
                   start |-> p, end |-> k + 1])
        ELSE None

\* _xt_nat_sub: the replacement of one match m in s.
xt_nat_sub(s, m) ==
    LET group0 == SubSeq(s, m.start, m.end - 1)
    IN  IF m.tgt = "MASQUERADE" THEN <<"masquerade">>
        ELSE IF m.tgt = "DNAT"
        THEN IF m.to # None THEN <<"dnat", " ", "to", " ">> \o m.to[1]
             ELSE group0
        ELSE IF m.tgt = "SNAT"
        THEN IF m.to # None THEN <<"snat", " ", "to", " ">> \o m.to[1]
             ELSE group0
        ELSE group0

\* xt_nat_re.sub(_xt_nat_sub, text), from position p; XtSubAt is its step
\* at p, given what the pattern finds there.
RECURSIVE XtSub(_, _)
RECURSIVE XtSubAt(_, _, _)
XtSubAt(s, p, found) ==
    IF found # None
    THEN xt_nat_sub(s, found[1]) \o XtSub(s, found[1].end)
    ELSE <<s[p]>> \o XtSub(s, p + 1)

XtSub(s, p) ==
    IF p > Len(s) THEN <<>> ELSE XtSubAt(s, p, XtMatchAt(s, p))

\* r"\bcounter\s+packets\s+\d+\s+bytes\s+\d+\b" tried at position p: the
\* position after the match, 0 if there is none.
CounterMatchAt(s, p) ==
    LET a == AfterSpaces(s, p + 1)
        b == AfterSpaces(s, a + 1)
        c == AfterSpaces(s, b + 1)
        d == AfterSpaces(s, c + 1)
    IN  IF /\ WordBoundary(s, p) /\ At(s, p, "counter")
           /\ a > 0 /\ At(s, a, "packets")
           /\ b > 0 /\ b <= Len(s) /\ s[b] \in NumAtoms
           /\ c > 0 /\ At(s, c, "bytes")
           /\ d > 0 /\ d <= Len(s) /\ s[d] \in NumAtoms
           /\ WordBoundary(s, d + 1)
        THEN d + 1
        ELSE 0

\* re.sub of the counter pattern by "counter", from position p.
RECURSIVE CounterSub(_, _)
RECURSIVE CounterSubAt(_, _, _)
CounterSubAt(s, p, end) ==
    IF end > 0
    THEN <<"counter">> \o CounterSub(s, end)
    ELSE <<s[p]>> \o CounterSub(s, p + 1)

CounterSub(s, p) ==
    IF p > Len(s) THEN <<>> ELSE CounterSubAt(s, p, CounterMatchAt(s, p))

\* r'\b(tcp|udp)\s+dport\s+(\d+)' tried at position q: the position of the
\* port, 0 if there is no match.
DportAt(s, q) ==
    LET d == AfterSpaces(s, q + 1)
        n == AfterSpaces(s, d + 1)
    IN  IF /\ WordBoundary(s, q) /\ q <= Len(s) /\ s[q] \in {"tcp", "udp"}
           /\ d > 0 /\ At(s, d, "dport")
           /\ n > 0 /\ n <= Len(s) /\ s[n] \in NumAtoms
        THEN n
        ELSE 0

\* The companion pattern
\*   ip6\s+daddr\s+([^\s]+).*?\b(tcp|udp)\s+dport\s+(\d+).*?\baccept\b
\* tried at position p: the match with its groups, or None.
CompanionMatchAt(s, p) ==
    LET a == AfterSpaces(s, p + 1)
        r == AfterSpaces(s, a + 1)
        e == SkipNonSpace(s, r)
        Accept(n, x) == /\ NoNewline(s, n + 1, x - 1) /\ At(s, x, "accept")
                        /\ WordBoundary(s, x) /\ WordBoundary(s, x + 1)
        Proto(q) == /\ NoNewline(s, e, q - 1) /\ DportAt(s, q) > 0
                    /\ \E x \in (DportAt(s, q) + 1)..Len(s) : Accept(DportAt(s, q), x)
        qs == {q \in e..Len(s) : Proto(q)}
    IN  IF /\ At(s, p, "ip6") /\ a > 0 /\ At(s, a, "daddr")
           /\ r > 0 /\ e > r /\ qs # {}
        THEN LET q == CHOOSE q \in qs : \A j \in qs : q <= j
                 n == DportAt(s, q)
                 xs == {x \in (n + 1)..Len(s) : Accept(n, x)}
                 x == CHOOSE x \in xs : \A j \in xs : x <= j
             IN  Some([addr |-> SubSeq(s, r, e - 1), proto |-> s[q],
                       port |-> s[n], end |-> x + 1])
        ELSE None

\* re.finditer of the companion pattern, from position p.
RECURSIVE CompanionMatches(_, _)
RECURSIVE CompanionMatchesAt(_, _, _)
CompanionMatchesAt(s, p, found) ==
    IF found # None
    THEN <<found[1]>> \o CompanionMatches(s, found[1].end)
    ELSE CompanionMatches(s, p + 1)

CompanionMatches(s, p) ==
    IF p > Len(s) THEN <<>>
    ELSE CompanionMatchesAt(s, p, CompanionMatchAt(s, p))

\* line.replace(old, new)
RECURSIVE Replace(_, _, _)
Replace(line, old, new) ==
    IF Len(line) < Len(old) THEN line
    ELSE IF SubSeq(line, 1, Len(old)) = old
         THEN new \o Replace(From(line, Len(old) + 1), old, new)
         ELSE <<line[1]>> \o Replace(Tail(line), old, new)

XtDnat == <<"xt", " ", "target", " ", "\"DNAT\"">>

\* The loop body of _fix_xt_dnat_without_to taking an address whenever
\* there is one, also among several.
FixLineAny(line, found) ==
    LET bad == Contains(line, XtDnat) /\ ~Contains(line, <<"to", ":">>)
        ms == {i \in 1..Len(line) :
                 DportAt(line, i) > 0 /\ WordBoundary(line, DportAt(line, i) + 1)}
    IN  IF bad /\ ~Contains(line, <<"dnat", " ", "to">>) /\ ms # {}
        THEN LET i == CHOOSE i \in ms : \A j \in ms : i <= j
                 proto == line[i]
                 port == line[DportAt(line, i)]
                 addrs == {found[k].addr : k \in
                             {k \in 1..Len(found) : /\ found[k].proto = proto
                                                    /\ found[k].port = port}}
             IN  IF Cardinality(addrs) >= 1
                 THEN LET addr == CHOOSE x \in addrs : TRUE
                          colon == \E j \in 1..Len(addr) : addr[j] \in ColonAtoms
                          addr_fmt ==
                              IF colon /\ ~(addr[1] = "[" /\ addr[Len(addr)] = "]")
                              THEN <<"[">> \o addr \o <<"]">>
                              ELSE addr
                      IN  Replace(line, XtDnat,
                                  <<"dnat", " ", "to", " ">> \o addr_fmt
                                      \o <<":", port>>)
                 ELSE line
        ELSE line

\* The loop body of _fix_xt_dnat_without_to for one line, given the matches
\* of the companion pattern in the whole text.
FixLine(line, found) ==
    LET bad == Contains(line, XtDnat) /\ ~Contains(line, <<"to", ":">>)
        ms == {i \in 1..Len(line) :
                 DportAt(line, i) > 0 /\ WordBoundary(line, DportAt(line, i) + 1)}
    IN  IF bad /\ ~Contains(line, <<"dnat", " ", "to">>) /\ ms # {}
        THEN LET i == CHOOSE i \in ms : \A j \in ms : i <= j
                 proto == line[i]
                 port == line[DportAt(line, i)]
                 addrs == {found[k].addr : k \in
                             {k \in 1..Len(found) : /\ found[k].proto = proto
                                                    /\ found[k].port = port}}
             IN  IF Cardinality(addrs) = 1
                 THEN LET addr == CHOOSE x \in addrs : TRUE
                          colon == \E j \in 1..Len(addr) : addr[j] \in ColonAtoms
                          addr_fmt ==
                              IF colon /\ ~(addr[1] = "[" /\ addr[Len(addr)] = "]")
                              THEN <<"[">> \o addr \o <<"]">>
                              ELSE addr
                      IN  Replace(line, XtDnat,
                                  <<"dnat", " ", "to", " ">> \o addr_fmt
                                      \o <<":", port>>)
                 ELSE line
        ELSE line

fix_xt_dnat_without_to(text) ==
    LET found == CompanionMatches(text, 1)
        lines == splitlines(text)
    IN  join([k \in 1..Len(lines) |-> FixLine(lines[k], found)])

input_filter(text) ==
    fix_xt_dnat_without_to(CounterSub(XtSub(text, 1), 1))

----------------------------------------------------------------------------
(* Data model: Chain, Table, Ruleset.  A dict is a function on its keys.   *)

\* d[k] = v
DictSet(d, k, v) == [x \in (DOMAIN d) \cup {k} |-> IF x = k THEN v ELSE d[x]]

EmptyDict == [x \in {} |-> None]

\* Chain(name=cname, indent=indent)
NewChain(cname, indent) ==
    [name |-> cname, indent |-> indent, header_lines |-> <<>>,
     rules |-> <<>>, blank_between_header_and_rules |-> FALSE,
     norm_rules |-> {}]

\* Chain.finalize
finalize(chain) ==
    [chain EXCEPT !.norm_rules =
        {normalize_rule(lstrip(chain.rules[i])) : i \in 1..Len(chain.rules)}]

\* Chain.normalized_rules
normalized_rules(chain) == chain.norm_rules

\* Chain.diff_rules_originals comparing the lines as written, not their
\* normalized forms.
diff_rules_originals_raw(self, other) ==
    IF other = None THEN self.rules
    ELSE LET other_norm == normalized_rules(other[1])
             Keep(ln) == ln \notin other_norm
         IN  SelectSeq(self.rules, Keep)

\* Chain.diff_rules_originals
diff_rules_originals(self, other) ==
    IF other = None THEN self.rules
    ELSE LET other_norm == normalized_rules(other[1])
             Keep(ln) == normalize_rule(lstrip(ln)) \notin other_norm
         IN  SelectSeq(self.rules, Keep)

\* Table(family=fam, name=tname, indent=indent)
NewTable(fam, tname, indent) ==
    [family |-> fam, name |-> tname, indent |-> indent,
     chains_in_order |-> <<>>, chains |-> EmptyDict]

\* Table.key
key(table) == <<table.family, table.name>>

\* Ruleset()
NewRuleset == [tables_in_order |-> <<>>, tables |-> EmptyDict]

\* Ruleset.get_table
get_table(self, fam, tname) ==
    IF <<fam, tname>> \in DOMAIN self.tables
    THEN Some(self.tables[<<fam, tname>>])
    ELSE None

----------------------------------------------------------------------------
(* Parsing helpers.                                                        *)

\* _find_matching_brace answering the end of the text where the scan finds
\* no matching brace.
RECURSIVE BraceScanLenient(_, _, _)
BraceScanLenient(text, pos, depth) ==
    IF pos > Len(text) THEN Return(Len(text))
    ELSE IF text[pos] = "{" THEN BraceScanLenient(text, pos + 1, depth + 1)
    ELSE IF text[pos] = "}"
         THEN IF depth - 1 = 0 THEN Return(pos)
              ELSE BraceScanLenient(text, pos + 1, depth - 1)
    ELSE BraceScanLenient(text, pos + 1, depth)

find_matching_brace_lenient(text, open_pos) ==
    IF text[open_pos] # "{" THEN ValueError
    ELSE BraceScanLenient(text, open_pos, 0)

\* _find_matching_brace: the scan from `pos` with the depth so far; the
\* returned position of the matching '}', or ValueError.
RECURSIVE BraceScan(_, _, _)
BraceScan(text, pos, depth) ==
    IF pos > Len(text) THEN ValueError
    ELSE IF text[pos] = "{" THEN BraceScan(text, pos + 1, depth + 1)
    ELSE IF text[pos] = "}"
         THEN IF depth - 1 = 0 THEN Return(pos)
              ELSE BraceScan(text, pos + 1, depth - 1)
    ELSE BraceScan(text, pos + 1, depth)

find_matching_brace(text, open_pos) ==
    IF text[open_pos] # "{" THEN ValueError
    ELSE BraceScan(text, open_pos, 0)

\* The tail `(\S+)\s*\{` of both header patterns, tried at position r: the
\* longest non-empty run of \S atoms from r that `\s*\{` can follow.
LastName(s, r) ==
    LET e == SkipNonSpace(s, r)
        Follows(k) == IF k = e
                      THEN LET b == SkipSpace(s, e)
                           IN  b <= Len(s) /\ s[b] = "{"
                      ELSE s[k] = "{"
        cands == {k \in (r + 1)..e : Follows(k)}
    IN  IF cands = {} THEN None
        ELSE LET k == CHOOSE k \in cands : \A j \in cands : j <= k
             IN  Some([name |-> SubSeq(s, r, k - 1),
                       brace |-> IF k = e THEN SkipSpace(s, e) ELSE k])

\* `(^[ \t]*)table\s+(\S+)\s+(\S+)\s*\{` tried at position p of s[idx:].
TableMatchAt(s, idx, p) ==
    LET q  == SkipBlank(s, p)
        r1 == SkipSpace(s, q + 1)
        e1 == SkipNonSpace(s, r1)
        r2 == SkipSpace(s, e1)
        Groups(last) ==
            IF last = None THEN None
            ELSE Some([indent |-> SubSeq(s, p, q - 1),
                       fam |-> SubSeq(s, r1, e1 - 1),
                       name |-> last[1].name,
                       brace |-> last[1].brace])
    IN  IF /\ (p = idx \/ s[p - 1] = "\n")
           /\ q <= Len(s) /\ s[q] = "table"
           /\ r1 > q + 1 /\ e1 > r1 /\ r2 > e1
        THEN Groups(LastName(s, r2))
        ELSE None

\* `(^[ \t]*)chain\s+(\S+)\s*\{` tried at position p of s[idx:].
ChainMatchAt(s, idx, p) ==
    LET q  == SkipBlank(s, p)
        r1 == SkipSpace(s, q + 1)
        Groups(last) ==
            IF last = None THEN None
            ELSE Some([indent |-> SubSeq(s, p, q - 1),
                       name |-> last[1].name,
                       brace |-> last[1].brace])
    IN  IF /\ (p = idx \/ s[p - 1] = "\n")
           /\ q <= Len(s) /\ s[q] = "chain"
           /\ r1 > q + 1
        THEN Groups(LastName(s, r1))
        ELSE None

\* The match found at a position if there is one, else the later one.
Leftmost(found, later) == IF found # None THEN found ELSE later

\* re.search of the table pattern in s[idx:]: the leftmost match or None.
RECURSIVE TableSearch(_, _, _)
TableSearch(s, idx, p) ==
    IF p > Len(s) THEN None
    ELSE Leftmost(TableMatchAt(s, idx, p), TableSearch(s, idx, p + 1))

\* re.search of the chain pattern in s[idx:]: the leftmost match or None.
RECURSIVE ChainSearch(_, _, _)
ChainSearch(s, idx, p) ==
    IF p > Len(s) THEN None
    ELSE Leftmost(ChainMatchAt(s, idx, p), ChainSearch(s, idx, p + 1))

\* The header test of a chain body line (leading whitespace removed).
is_header(content) ==
    LET startswith(w) == Len(content) >= 2 /\ content[1] = w /\ content[2] = " "
        word(w) == \E i \in 1..Len(content) :
                       /\ content[i] = w
                       /\ (i = 1 \/ content[i - 1] = " ")
                       /\ (i = Len(content) \/ content[i + 1] = " ")
    IN  /\ content # <<>> /\ content[Len(content)] = ";"
        /\ \/ startswith("type")
           \/ word("hook")
           \/ word("priority")
           \/ startswith("policy")
           \/ startswith("flags")

\* One turn of the loop over the lines of a chain body; st holds the chain
\* and the two local flags.
ClassifyLine(st, raw) ==
    LET line == rstrip(raw)
        chain == st.chain
    IN  IF strip(line) = <<>>
        THEN IF st.saw_header /\ chain.rules = <<>>
             THEN [st EXCEPT !.pending_blank = TRUE]
             ELSE st
        ELSE IF is_header(lstrip(line)) /\ chain.rules = <<>>
        THEN [st EXCEPT !.chain.header_lines = Append(@, line),
                        !.saw_header = TRUE]
        ELSE IF st.saw_header /\ st.pending_blank
        THEN [st EXCEPT !.chain.blank_between_header_and_rules = TRUE,
                        !.pending_blank = FALSE,
                        !.chain.rules = Append(@, line)]
        ELSE [st EXCEPT !.chain.rules = Append(@, line)]

RECURSIVE ClassifyLines(_, _)
ClassifyLines(st, lines) ==
    IF lines = <<>> THEN st
    ELSE ClassifyLines(ClassifyLine(st, lines[1]), Tail(lines))

\* The chain built from the text between a chain's braces.
ParseChainBody(cname, indent, inner) ==
    ClassifyLines([chain |-> NewChain(cname, indent), saw_header |-> FALSE,
                   pending_blank |-> FALSE], splitlines(inner)).chain

\* _parse_table_body_into: the loop from offset idx; the filled table is
\* returned, or ValueError raised.  One turn of the loop is ChainFound
\* (the test of the match), ChainScanned (the brace scan and the chain)
\* and ChainAdded (the two stores and the advance of idx).
RECURSIVE parse_table_body_into(_, _, _)
RECURSIVE ChainFound(_, _, _)
RECURSIVE ChainScanned(_, _, _, _)
RECURSIVE ChainAdded(_, _, _)
ChainAdded(body, t2, brace_end) ==
    IF brace_end + 1 > Len(body) THEN Return(t2)
    ELSE parse_table_body_into(body, t2, brace_end + 1)

ChainScanned(body, table, match, scan) ==
    IF scan = ValueError THEN ValueError
    ELSE ChainAdded(body,
            [table EXCEPT
               !.chains = DictSet(@, match.name,
                            ParseChainBody(match.name, match.indent,
                               SubSeq(body, match.brace + 1, scan[1] - 1))),
               !.chains_in_order = Append(@, match.name)],
            scan[1])

ChainFound(body, table, found) ==
    IF found = None THEN Return(table)
    ELSE ChainScanned(body, table, found[1],
                      find_matching_brace(body, found[1].brace))

parse_table_body_into(body, table, idx) ==
    ChainFound(body, table, ChainSearch(body, idx, idx))

\* The loop of Ruleset.parse over the comment-free text, from offset idx.
\* One turn of the loop is TableFound (the test of the match),
\* TableScanned (the brace scan and the body), TableFilled (the chains
\* finalized) and TableAdded (the two stores and the advance of idx).
RECURSIVE ParseLoop(_, _, _)
RECURSIVE TableFound(_, _, _)
RECURSIVE TableScanned(_, _, _, _)
RECURSIVE TableFilled(_, _, _, _)
RECURSIVE TableAdded(_, _, _, _)
TableAdded(clean, ruleset, table, brace_end) ==
    LET rs2 == [ruleset EXCEPT
                  !.tables = DictSet(@, key(table), table),
                  !.tables_in_order = Append(@, key(table))]
    IN  IF brace_end + 1 > Len(clean) THEN Return(rs2)
        ELSE ParseLoop(clean, rs2, brace_end + 1)

TableFilled(clean, ruleset, filled, brace_end) ==
    IF filled = ValueError THEN ValueError
    ELSE TableAdded(clean, ruleset,
            [filled[1] EXCEPT !.chains =
                [c \in DOMAIN filled[1].chains |-> finalize(filled[1].chains[c])]],
            brace_end)

TableScanned(clean, ruleset, match, scan) ==
    IF scan = ValueError THEN ValueError
    ELSE TableFilled(clean, ruleset,
            parse_table_body_into(
                SubSeq(clean, match.brace + 1, scan[1] - 1),
                NewTable(match.fam, match.name, match.indent), 1),
            scan[1])

TableFound(clean, ruleset, found) ==
    IF found = None THEN Return(ruleset)
    ELSE TableScanned(clean, ruleset, found[1],
                      find_matching_brace(clean, found[1].brace))

ParseLoop(clean, ruleset, idx) ==
    TableFound(clean, ruleset, TableSearch(clean, idx, idx))

\* Ruleset.parse: a Ruleset is returned, or ValueError raised.
parse(text) == ParseLoop(strip_comments(text), NewRuleset, 1)

----------------------------------------------------------------------------
(* Delta renderer.                                                         *)

\* _compute_chains_to_render putting the header lines before the extras of
\* a chain the base table knows.
compute_chains_to_render_headers(current, base_tbl) ==
    LET order == current.chains_in_order
        Full(cname) == [cname |-> cname, chain |-> current.chains[cname],
                        extras |-> None]
        Diff(cname) == diff_rules_originals(current.chains[cname],
                                            Some(base_tbl[1].chains[cname]))
        Part(cname) == [cname |-> cname, chain |-> current.chains[cname],
                        extras |-> Some(current.chains[cname].header_lines
                                        \o Diff(cname))]
        IsNew(cname) == cname \notin DOMAIN base_tbl[1].chains
        HasExtras(cname) == /\ cname \in DOMAIN base_tbl[1].chains
                            /\ Diff(cname) # <<>>
        new == SelectSeq(order, IsNew)
        old == SelectSeq(order, HasExtras)
    IN  IF base_tbl = None
        THEN [i \in 1..Len(order) |-> Full(order[i])]
        ELSE [i \in 1..Len(new) |-> Full(new[i])]
             \o [i \in 1..Len(old) |-> Part(old[i])]

\* _compute_chains_to_render: a list of [cname, chain, extras], extras None
\* for a chain printed in full.
compute_chains_to_render(current, base_tbl) ==
    LET order == current.chains_in_order
        Full(cname) == [cname |-> cname, chain |-> current.chains[cname],
                        extras |-> None]
        Part(cname) == [cname |-> cname, chain |-> current.chains[cname],
                        extras |-> Some(diff_rules_originals(
                                        current.chains[cname],
                                        Some(base_tbl[1].chains[cname])))]
        IsNew(cname) == cname \notin DOMAIN base_tbl[1].chains
        HasExtras(cname) == /\ cname \in DOMAIN base_tbl[1].chains
                            /\ Part(cname).extras[1] # <<>>
        new == SelectSeq(order, IsNew)
        old == SelectSeq(order, HasExtras)
    IN  IF base_tbl = None
        THEN [i \in 1..Len(order) |-> Full(order[i])]
        ELSE [i \in 1..Len(new) |-> Full(new[i])]
             \o [i \in 1..Len(old) |-> Part(old[i])]

\* The lines of one chain block, the blank line before it included when it
\* is not the first of its table.
RenderChain(item, first) ==
    LET chain == item.chain
    IN  (IF first THEN <<>> ELSE << <<>> >>)
        \o << chain.indent \o <<"chain", " ">> \o item.cname \o <<" ", "{">> >>
        \o (IF item.extras = None
            THEN chain.header_lines
                 \o (IF chain.blank_between_header_and_rules /\ chain.rules # <<>>
                     THEN << <<>> >> ELSE <<>>)
                 \o chain.rules
            ELSE item.extras[1])
        \o << chain.indent \o <<"}">> >>

RECURSIVE RenderChains(_, _)
RenderChains(to_render, i) ==
    IF i > Len(to_render) THEN <<>>
    ELSE RenderChain(to_render[i], i = 1) \o RenderChains(to_render, i + 1)

\* The output lines of the tables from position i of self.tables_in_order.
RECURSIVE RenderTables(_, _, _)
RenderTables(self, base_rs, i) ==
    IF i > Len(self.tables_in_order) THEN <<>>
    ELSE LET k == self.tables_in_order[i]
             current == self.tables[k]
             base_tbl == get_table(base_rs, k[1], k[2])
             to_render == compute_chains_to_render(current, base_tbl)
             rest == RenderTables(self, base_rs, i + 1)
         IN  IF to_render = <<>> THEN rest
             ELSE << current.indent \o <<"table", " ">> \o k[1] \o <<" ">>
                       \o k[2] \o <<" ", "{">> >>
                  \o RenderChains(to_render, 1)
                  \o << current.indent \o <<"}">> >>
                  \o rest

\* Ruleset.render_declarative_delta
render_declarative_delta(self, base_rs) ==
    LET output == RenderTables(self, base_rs, 1)
    IN  join(output) \o (IF output # <<>> THEN <<"\n">> ELSE <<>>)

----------------------------------------------------------------------------
(* The input universes.                                                    *)

MaxArgs == 3
MaxRules == 3
MaxBaseRules == 1
MaxLines == 4
MaxNormLines == 3

\* Every sequence over S of length at most n.
SeqsUpTo(S, n) == UNION {[1..k -> S] : k \in 0..n}

\* Lines of a chain body.
Hdr    == <<" ", " ", "type", " ", "x", " ", "hook", " ", "y", ";">>
Policy == <<" ", " ", "policy", " ", "drop", ";">>
RuleA  == <<" ", " ", "a">>
RuleA2 == <<"a", " ", ";", " ">>
RuleB  == <<" ", " ", "b", ";">>
RuleAB == <<" ", " ", "a", " ", " ", "b">>
Blank  == <<>>

RECURSIVE Lines(_)
Lines(ls) == IF ls = <<>> THEN <<>> ELSE ls[1] \o <<"\n">> \o Lines(Tail(ls))

ChainOpen(cname) == <<" ", "chain", " ", cname, " ", "{">>
ChainClose == <<" ", "}">>
TableOpen(tname) == <<"table", " ", "ip", " ", tname, " ", "{">>
TableClose == <<"}">>

ChainText(cname, body) == Lines(<<ChainOpen(cname)>> \o body \o <<ChainClose>>)

RECURSIVE ChainsText(_)
ChainsText(cs) ==
    IF cs = <<>> THEN <<>>
    ELSE ChainText(cs[1].name, cs[1].body) \o ChainsText(Tail(cs))

TableText(tname, cs) ==
    Lines(<<TableOpen(tname)>>) \o ChainsText(cs) \o Lines(<<TableClose>>)

RECURSIVE TablesText(_)
TablesText(ts) ==
    IF ts = <<>> THEN <<>>
    ELSE TableText(ts[1].name, ts[1].chains) \o TablesText(Tail(ts))

Ch(cname, body) == [name |-> cname, body |-> body]
Tb(tname, cs) == [name |-> tname, chains |-> cs]

\* The fixed body of the chains around the one under study.
Body0 == <<Policy, RuleB>>

\* The table layouts: one chain; a chain name repeated in a table; two
\* chains; a table identifier repeated; two tables.
Layouts(body) ==
    { << Tb("f", <<Ch("c", body)>>) >>,
      << Tb("f", <<Ch("c", Body0), Ch("c", body)>>) >>,
      << Tb("f", <<Ch("d", Body0), Ch("c", body)>>) >>,
      << Tb("f", <<Ch("c", body)>>), Tb("f", <<Ch("c", Body0)>>) >>,
      << Tb("g", <<Ch("c", Body0)>>), Tb("f", <<Ch("c", body)>>) >> }

\* Current texts of the delta specification.
CurTexts ==
    {TablesText(l) : l \in UNION {Layouts(b) :
                        b \in SeqsUpTo({Hdr, RuleA, RuleA2, RuleB}, MaxRules)}}

\* Baseline texts of the delta specification.
BaseTexts ==
    {<<>>, TablesText(<< Tb("g", <<Ch("c", Body0)>>) >>)}
    \cup {TablesText(<< Tb("f", <<Ch("c", b)>>) >>) :
             b \in SeqsUpTo({RuleA, RuleAB}, MaxBaseRules)}

\* Well-formed texts of the parser specification.
GoodTexts ==
    {TablesText(l) : l \in UNION {Layouts(b) :
                        b \in SeqsUpTo({Hdr, Blank, RuleA}, MaxLines)}}

\* x with its last n atoms removed.
DropLast(x, n) == SubSeq(x, 1, Len(x) - n)

\* Texts of the parser specification: well formed; without the last table's closing
\* brace; without the last chain's closing brace; with an opening brace
\* after the last table; with an opening brace before the first.
ParseTexts ==
    UNION {{x, DropLast(x, 2), DropLast(x, 5) \o <<"}", "\n">>,
            x \o <<"{", "\n">>,
            <<"{", "\n">> \o x} : x \in GoodTexts}

\* Lines of the normalizer specification.
Dnat80    == <<"tcp", " ", "dport", " ", "80", " ", "xt", " ", "target", " ", "\"DNAT\"">>
DnatU53   == <<"udp", " ", "dport", " ", "53", " ", "xt", " ", "target", " ", "\"DNAT\"">>
Accept1   == <<"ip6", " ", "daddr", " ", "fd00::1", " ", "tcp", " ", "dport", " ", "80", " ", "accept">>
Accept2   == <<"ip6", " ", "daddr", " ", "fd00::2", " ", "tcp", " ", "dport", " ", "80", " ", "accept">>
AcceptB   == <<"ip6", " ", "daddr", " ", "[", "fd00::1", "]", " ", "udp", " ", "dport", " ", "53", " ", "accept">>
AcceptV4  == <<"ip6", " ", "daddr", " ", "10.0.0.5", " ", "udp", " ", "dport", " ", "53", " ", "accept">>
Drop1     == <<"ip6", " ", "daddr", " ", "fd00::2", " ", "tcp", " ", "dport", " ", "80", " ", "drop">>
Counter12 == <<"counter", " ", "packets", " ", "1", " ", "bytes", " ", "2">>
DnatTo    == <<"xt", " ", "target", " ", "\"DNAT\"", " ", "to", ":", "10.0.0.5">>
Counter2x == Counter12 \o <<" ", "packets", " ", "1", " ", "bytes", " ", "2">>

NormShapes == {Dnat80, DnatU53, Accept1, Accept2, AcceptB, AcceptV4, Drop1,
               Counter2x, DnatTo, Blank}

\* Texts of the normalizer specification: lines joined by "\n", with and without a
\* final "\n".
NormTexts ==
    UNION {{join(ls), join(ls) \o <<"\n">>} :
              ls \in SeqsUpTo(NormShapes, MaxNormLines)}

----------------------------------------------------------------------------
(* The command line driver.  An argument stands for the file it names:     *)
(* readable with its text, or not.                                         *)

File(text) == [readable |-> TRUE, text |-> text]
NoFile == [readable |-> FALSE, text |-> <<>>]

NatTable(body) == TablesText(<< Tb("nat", <<Ch("p", body)>>) >>)

Files ==
    { NoFile,
      File(<<>>),
      File(NatTable(<<Dnat80>>)),
      File(NatTable(<<Dnat80, <<"#", " ">> \o Accept1>>)),
      File(NatTable(<<Dnat80>>) \o Lines(<<Accept1>>)),
      File(NatTable(<<Counter12, DnatTo, Blank>>)),
      File(DropLast(NatTable(<<Dnat80>>), 2)) }

TypeInit ==
    /\ reads = 0
    /\ txt = None /\ glob_txt = None /\ comp_txt = None
    /\ base = None /\ comp = None
    /\ stdout = <<>> /\ stderr = <<>>
    /\ rc = None
    /\ norm1 = None /\ norm2 = None

Init ==
    /\ pc = "start"
    /\ argv \in UNION {[1..n -> Files] : n \in 0..MaxArgs}
    /\ TypeInit

Exit(code, msg) ==
    /\ rc' = Some(code)
    /\ stderr' = IF msg = None THEN stderr ELSE Append(stderr, msg[1])
    /\ pc' = "exit"

\* The argument check taking every count above two for the diff mode.
CheckArgsLax ==
    /\ pc = "start"
    /\ IF Len(argv) + 1 = 2
       THEN pc' = "read_txt" /\ UNCHANGED <<rc, stderr>>
       ELSE IF Len(argv) + 1 < 3
       THEN Exit(2, Some("usage"))
       ELSE pc' = "read_glob" /\ UNCHANGED <<rc, stderr>>
    /\ UNCHANGED <<argv, reads, txt, glob_txt, comp_txt, base, comp, stdout,
                   norm1, norm2>>

\* The script name is argv[0]; `argv` holds what follows it, so that
\* len(sys.argv) is Len(argv) + 1.
CheckArgs ==
    /\ pc = "start"
    /\ IF Len(argv) + 1 = 2
       THEN pc' = "read_txt" /\ UNCHANGED <<rc, stderr>>
       ELSE IF Len(argv) + 1 # 3
       THEN Exit(2, Some("usage"))
       ELSE pc' = "read_glob" /\ UNCHANGED <<rc, stderr>>
    /\ UNCHANGED <<argv, reads, txt, glob_txt, comp_txt, base, comp, stdout,
                   norm1, norm2>>

ReadTxt ==
    /\ pc = "read_txt"
    /\ reads' = reads + 1
    /\ IF argv[1].readable
       THEN txt' = argv[1].text /\ pc' = "write_clean" /\ UNCHANGED <<rc, stderr>>
       ELSE Exit(1, Some("read")) /\ UNCHANGED txt
    /\ UNCHANGED <<argv, glob_txt, comp_txt, base, comp, stdout, norm1, norm2>>

WriteClean ==
    /\ pc = "write_clean"
    /\ stdout' = Append(stdout, input_filter(txt))
    /\ Exit(0, None)
    /\ UNCHANGED <<argv, reads, txt, glob_txt, comp_txt, base, comp, norm1, norm2>>

ReadGlob ==
    /\ pc = "read_glob"
    /\ reads' = reads + 1
    /\ IF argv[1].readable
       THEN glob_txt' = argv[1].text /\ pc' = "read_comp"
            /\ UNCHANGED <<rc, stderr>>
       ELSE Exit(1, Some("read")) /\ UNCHANGED glob_txt
    /\ UNCHANGED <<argv, txt, comp_txt, base, comp, stdout, norm1, norm2>>

ReadComp ==
    /\ pc = "read_comp"
    /\ reads' = reads + 1
    /\ IF argv[2].readable
       THEN comp_txt' = argv[2].text /\ pc' = "filter"
            /\ UNCHANGED <<rc, stderr>>
       ELSE Exit(1, Some("read")) /\ UNCHANGED comp_txt
    /\ UNCHANGED <<argv, txt, glob_txt, base, comp, stdout, norm1, norm2>>

Filter ==
    /\ pc = "filter"
    /\ glob_txt' = input_filter(glob_txt)
    /\ comp_txt' = input_filter(comp_txt)
    /\ pc' = "parse_base"
    /\ UNCHANGED <<argv, reads, txt, base, comp, stdout, stderr, rc, norm1, norm2>>

ParseBase ==
    /\ pc = "parse_base"
    /\ LET r == parse(glob_txt)
       IN  IF r = ValueError
           THEN Exit(1, Some("parse")) /\ UNCHANGED base
           ELSE base' = r /\ pc' = "parse_comp" /\ UNCHANGED <<rc, stderr>>
    /\ UNCHANGED <<argv, reads, txt, glob_txt, comp_txt, comp, stdout, norm1, norm2>>

ParseComp ==
    /\ pc = "parse_comp"
    /\ LET r == parse(comp_txt)
       IN  IF r = ValueError
           THEN Exit(1, Some("parse")) /\ UNCHANGED comp
           ELSE comp' = r /\ pc' = "render" /\ UNCHANGED <<rc, stderr>>
    /\ UNCHANGED <<argv, reads, txt, glob_txt, comp_txt, base, stdout, norm1, norm2>>

Render ==
    /\ pc = "render"
    /\ stdout' = Append(stdout, render_declarative_delta(comp[1], base[1]))
    /\ Exit(0, None)
    /\ UNCHANGED <<argv, reads, txt, glob_txt, comp_txt, base, comp, norm1, norm2>>

Next ==
    \/ CheckArgs
    \/ ReadTxt
    \/ WriteClean
    \/ ReadGlob
    \/ ReadComp
    \/ Filter
    \/ ParseBase
    \/ ParseComp
    \/ Render

Spec == Init /\ [][Next]_vars

----------------------------------------------------------------------------
(* The library boundary: Parse and RenderDelta on two texts, Normalize on  *)
(* one.                                                                    *)

LibParse ==
    /\ pc = "lib_parse"
    /\ base' = parse(glob_txt)
    /\ comp' = parse(comp_txt)
    /\ pc' = IF base' = ValueError \/ comp' = ValueError THEN "lib_raised"
             ELSE "lib_render"
    /\ UNCHANGED <<argv, reads, txt, glob_txt, comp_txt, stdout, stderr, rc,
                   norm1, norm2>>

LibRender ==
    /\ pc = "lib_render"
    /\ stdout' = Append(stdout, render_declarative_delta(comp[1], base[1]))
    /\ pc' = "lib_done"
    /\ UNCHANGED <<argv, reads, txt, glob_txt, comp_txt, base, comp, stderr, rc,
                   norm1, norm2>>

NextLib == LibParse \/ LibRender

InitDelta ==
    /\ pc = "lib_parse"
    /\ argv = <<>>
    /\ comp_txt \in CurTexts
    /\ glob_txt \in BaseTexts \cup {comp_txt}
    /\ reads = 0 /\ txt = None /\ base = None /\ comp = None
    /\ stdout = <<>> /\ stderr = <<>> /\ rc = None
    /\ norm1 = None /\ norm2 = None

SpecDelta == InitDelta /\ [][NextLib]_vars

InitParse ==
    /\ pc = "lib_parse"
    /\ argv = <<>>
    /\ comp_txt \in ParseTexts
    /\ glob_txt = <<>>
    /\ reads = 0 /\ txt = None /\ base = None /\ comp = None
    /\ stdout = <<>> /\ stderr = <<>> /\ rc = None
    /\ norm1 = None /\ norm2 = None

SpecParse == InitParse /\ [][NextLib]_vars

LibNormalize ==
    /\ pc = "lib_norm"
    /\ norm1' = Some(input_filter(txt))
    /\ pc' = "lib_again"
    /\ UNCHANGED <<argv, reads, txt, glob_txt, comp_txt, base, comp, stdout,
                   stderr, rc, norm2>>

LibNormalizeAgain ==
    /\ pc = "lib_again"
    /\ norm2' = Some(input_filter(norm1[1]))
    /\ pc' = "lib_done"
    /\ UNCHANGED <<argv, reads, txt, glob_txt, comp_txt, base, comp, stdout,
                   stderr, rc, norm1>>

NextNorm == LibNormalize \/ LibNormalizeAgain

InitNorm ==
    /\ pc = "lib_norm"
    /\ argv = <<>>
    /\ txt \in NormTexts
    /\ reads = 0 /\ glob_txt = None /\ comp_txt = None
    /\ base = None /\ comp = None
    /\ stdout = <<>> /\ stderr = <<>> /\ rc = None
    /\ norm1 = None /\ norm2 = None

SpecNorm == InitNorm /\ [][NextNorm]_vars

----------------------------------------------------------------------------
(* Properties of the delta renderer.                                       *)

\* The lines written to stdout by the one write of a run.
OutLines == splitlines(stdout[1])

\* The maximal runs of non-blank atoms of a line.
RECURSIVE Runs(_)
Runs(line) ==
    IF line = <<>> THEN <<>>
    ELSE IF IsSpace(line[1]) THEN Runs(Tail(line))
    ELSE LET e == SkipNonSpace(line, 1)
         IN  <<SubSeq(line, 1, e - 1)>> \o Runs(From(line, e))

\* The normalized form of a rule line: one trailing ';' dropped, the runs
\* that remain separated by single spaces.
NormalForm(line) ==
    LET rs == Runs(line)
        n  == Len(rs)
        cut == IF n > 0 /\ rs[n][Len(rs[n])] = ";"
               THEN IF Len(rs[n]) = 1 THEN SubSeq(rs, 1, n - 1)
                    ELSE [rs EXCEPT ![n] = SubSeq(@, 1, Len(@) - 1)]
               ELSE rs
        Spaced == [i \in 1..Len(cut) |->
                     IF i = 1 THEN cut[i] ELSE <<" ">> \o cut[i]]
        RECURSIVE Cat(_)
        Cat(xs) == IF xs = <<>> THEN <<>> ELSE xs[1] \o Cat(Tail(xs))
    IN  Cat(Spaced)

\* The rule lines of cur whose normalized form no rule line of bas has.
Novel(cur, bas) ==
    LET known == {NormalForm(bas.rules[i]) : i \in 1..Len(bas.rules)}
        IsNovel(ln) == NormalForm(ln) \notin known
    IN  SelectSeq(cur.rules, IsNovel)

TableLine(t) ==
    t.indent \o <<"table", " ">> \o t.family \o <<" ">> \o t.name \o <<" ", "{">>

IsTableLine(line) == lstrip(line) # <<>> /\ lstrip(line)[1] = "table"

\* The output positions of the opening lines of chain c's blocks inside the
\* blocks of table t.
BlocksOf(out, t, c) ==
    {i \in 1..Len(out) :
        /\ out[i] = c.indent \o <<"chain", " ">> \o c.name \o <<" ", "{">>
        /\ \E j \in 1..(i - 1) :
              /\ out[j] = TableLine(t)
              /\ \A m \in (j + 1)..(i - 1) : ~IsTableLine(out[m])}

\* C1: the delta of a text against itself is the empty string, also when
\* the text repeats a table identifier or a chain name.
C1_SelfDiffEmpty ==
    (pc = "lib_done" /\ glob_txt = comp_txt) => stdout = << <<>> >>

\* A self-diff of a text that repeats a chain name and holds rules.
C1_Witness ==
    /\ pc = "lib_done" /\ glob_txt = comp_txt
    /\ \E k \in DOMAIN comp[1].tables :
          LET t == comp[1].tables[k]
          IN  /\ Len(t.chains_in_order) > Cardinality(DOMAIN t.chains)
              /\ \E c \in DOMAIN t.chains : Len(t.chains[c].rules) >= 2

\* C2: for a table and a chain present in both rulesets, the chain's block
\* holds exactly the novel rule lines of the current chain, in order and in
\* their original text, and no header line; without a novel rule line the
\* chain has no block.
C2_PartialChain ==
    pc = "lib_done" =>
        \A k \in (DOMAIN comp[1].tables) \cap (DOMAIN base[1].tables) :
            LET t == comp[1].tables[k]
                b == base[1].tables[k]
            IN  \A c \in (DOMAIN t.chains) \cap (DOMAIN b.chains) :
                    LET cur == t.chains[c]
                        E == Novel(cur, b.chains[c])
                        blocks == BlocksOf(OutLines, t, cur)
                    IN  /\ (E = <<>>) = (blocks = {})
                        /\ \A i \in blocks :
                              /\ i + Len(E) + 1 <= Len(OutLines)
                              /\ SubSeq(OutLines, i + 1, i + Len(E)) = E
                              /\ OutLines[i + Len(E) + 1] = cur.indent \o <<"}">>

\* A partial block: a chain with header lines of which some but not all
\* rule lines are novel, one of them not in normalized form.
C2_Witness ==
    /\ pc = "lib_done"
    /\ \E k \in (DOMAIN comp[1].tables) \cap (DOMAIN base[1].tables) :
          \E c \in (DOMAIN comp[1].tables[k].chains)
                      \cap (DOMAIN base[1].tables[k].chains) :
              LET cur == comp[1].tables[k].chains[c]
                  E == Novel(cur, base[1].tables[k].chains[c])
              IN  /\ cur.header_lines # <<>>
                  /\ E # <<>> /\ Len(E) < Len(cur.rules)
                  /\ \E i \in 1..Len(E) : E[i] # NormalForm(E[i])
                  /\ BlocksOf(OutLines, comp[1].tables[k], cur) # {}

\* C3: against an empty baseline the delta reproduces every table block of
\* the text once and in source order, with every chain block, header line
\* and rule line in order and indentation.
C3_FullEmission ==
    (pc = "lib_done" /\ comp_txt \in GoodTexts) =>
        LET NonBlank(l) == l # <<>>
            src == splitlines(comp_txt)
        IN  SelectSeq(OutLines, NonBlank)
                = SelectSeq([i \in 1..Len(src) |-> rstrip(src[i])], NonBlank)

----------------------------------------------------------------------------
(* Properties of the parser.                                               *)

\* As many '{' as '}' in x[i..j].
Balanced(x, i, j) ==
    Cardinality({k \in i..j : x[k] = "{"}) = Cardinality({k \in i..j : x[k] = "}"})

\* The '{' at position i of x has a matching '}' before the end of x.
Matched(x, i) == \E j \in (i + 1)..Len(x) : x[j] = "}" /\ Balanced(x, i, j)

\* The positions of the opening braces of the table headers of x.
TableBraces(x) ==
    {TableMatchAt(x, 1, p)[1].brace :
        p \in {p \in 1..Len(x) : TableMatchAt(x, 1, p) # None}}

Parsed == pc \in {"lib_raised", "lib_render", "lib_done"}

\* C6 as claimed: Parse raises whenever the input holds an opening brace
\* with no matching closing brace before the end of input.
C6_AnyUnmatchedBraceRaises ==
    (Parsed /\ \E i \in 1..Len(comp_txt) :
                   comp_txt[i] = "{" /\ ~Matched(comp_txt, i))
        => comp = ValueError

\* C6 amended: Parse raises, and returns no Ruleset, whenever the opening
\* brace of a table header has no matching closing brace before the end of
\* input; the scan from a table's opening brace returns a position only of
\* the first '}' at which the depth is back at zero.
C6_UnmatchedTableBraceRaises ==
    Parsed =>
        /\ (\E b \in TableBraces(comp_txt) : ~Matched(comp_txt, b))
              => (comp = ValueError /\ pc = "lib_raised" /\ stdout = <<>>)
        /\ \A b \in TableBraces(comp_txt) :
              LET r == find_matching_brace(comp_txt, b)
              IN  r # ValueError =>
                    /\ comp_txt[r[1]] = "}" /\ Balanced(comp_txt, b, r[1])
                    /\ \A j \in (b + 1)..(r[1] - 1) : ~Balanced(comp_txt, b, j)

\* Parse has raised on a text whose first table is closed and whose last
\* table is not.
C6_Witness ==
    /\ pc = "lib_raised" /\ comp = ValueError
    /\ \E b \in TableBraces(comp_txt) : Matched(comp_txt, b)
    /\ \E b \in TableBraces(comp_txt) : ~Matched(comp_txt, b)

NoDup(q) == \A i, j \in 1..Len(q) : i # j => q[i] # q[j]

Range(q) == {q[i] : i \in 1..Len(q)}

\* C7: in a parsed Ruleset the sequence of table identifiers repeats none
\* and holds the keys of the table mapping, and so do the chain names of
\* every table.
C7_KeysUnique ==
    (Parsed /\ comp # ValueError) =>
        LET r == comp[1]
        IN  /\ NoDup(r.tables_in_order)
            /\ Range(r.tables_in_order) = DOMAIN r.tables
            /\ \A k \in DOMAIN r.tables :
                  /\ NoDup(r.tables[k].chains_in_order)
                  /\ Range(r.tables[k].chains_in_order) = DOMAIN r.tables[k].chains

\* C10: in a chain body a line is a header line only while no rule line
\* came before it, and the blank-separator flag ends true exactly when the
\* chain has a header line, a rule line, and a blank line between the last
\* header line and the first rule line.  Stated of the texts made of one
\* table with one chain.
C10_HeaderRuleSplit ==
    LET src == splitlines(comp_txt)
        n == Len(src)
        body == [i \in 1..(n - 4) |-> rstrip(src[i + 2])]
        IsRule(l) == l # <<>> /\ ~is_header(lstrip(l))
        rulesAt == {i \in 1..Len(body) : IsRule(body[i])}
        first == IF rulesAt = {} THEN Len(body) + 1
                 ELSE CHOOSE i \in rulesAt : \A j \in rulesAt : i <= j
        hdrsAt == {i \in 1..(first - 1) : body[i] # <<>>}
        last == CHOOSE i \in hdrsAt : \A j \in hdrsAt : j <= i
        NonBlank(l) == l # <<>>
    IN  ( /\ Parsed /\ comp # ValueError
          /\ n >= 4
          /\ src[1] = TableOpen("f") /\ src[2] = ChainOpen("c")
          /\ src[n - 1] = ChainClose /\ src[n] = TableClose
          /\ comp[1].tables_in_order = << <<<<"ip">>, <<"f">>>> >>
          /\ comp[1].tables[<<<<"ip">>, <<"f">>>>].chains_in_order = << <<"c">> >> )
        => LET c == comp[1].tables[<<<<"ip">>, <<"f">>>>].chains[<<"c">>]
           IN  /\ c.header_lines = SelectSeq(SubSeq(body, 1, first - 1), NonBlank)
               /\ c.rules = SelectSeq(SubSeq(body, first, Len(body)), NonBlank)
               /\ c.blank_between_header_and_rules
                    = ( /\ hdrsAt # {} /\ rulesAt # {}
                        /\ \E j \in (last + 1)..(first - 1) : body[j] = <<>> )

----------------------------------------------------------------------------
(* Properties of the normalizer.                                           *)

\* C4: normalizing a normalized text changes nothing.
C4_Idempotent == pc = "lib_done" => norm2 = norm1

\* The first `(tcp|udp) dport PORT` of a single-spaced line: its position,
\* 0 if the line has none.
FirstDport(l) ==
    LET at == {i \in 1..(Len(l) - 4) :
                  /\ l[i] \in {"tcp", "udp"} /\ l[i + 1] = " "
                  /\ l[i + 2] = "dport" /\ l[i + 3] = " "
                  /\ l[i + 4] \in NumAtoms}
    IN  IF at = {} THEN 0 ELSE CHOOSE i \in at : \A j \in at : i <= j

\* A line holding an un-destined `xt target "DNAT"` and a dport match.
Undestined(l) ==
    /\ \E i \in 1..(Len(l) - 4) : SubSeq(l, i, i + 4) = XtDnat
    /\ ~\E i \in 1..(Len(l) - 1) : l[i] = "to" /\ l[i + 1] = ":"
    /\ FirstDport(l) > 0

\* The addresses of the companion lines of a text for a protocol and a
\* port: the lines `ip6 daddr ADDR ... proto dport port ... accept`.
CompanionAddrs(ls, proto, port) ==
    LET IsCompanion(l) ==
            /\ Len(l) >= 5 /\ SubSeq(l, 1, 4) = <<"ip6", " ", "daddr", " ">>
            /\ \E i \in 5..(Len(l) - 4) :
                  /\ SubSeq(l, i, i + 4) = <<proto, " ", "dport", " ", port>>
                  /\ \E j \in (i + 5)..Len(l) : l[j] = "accept"
    IN  {SubSeq(l, 5, SkipNonSpace(l, 5) - 1) :
            l \in {ls[k] : k \in {k \in 1..Len(ls) : IsCompanion(ls[k])}}}

\* The line l with its `xt target "DNAT"` turned into `dnat to ADDR:PORT`.
Destined(l, addr, port) ==
    LET i == CHOOSE i \in 1..(Len(l) - 4) : SubSeq(l, i, i + 4) = XtDnat
        bare == \A j \in 1..Len(addr) : addr[j] \notin {"[", "]"}
        colon == \E j \in 1..Len(addr) : addr[j] \in ColonAtoms
    IN  SubSeq(l, 1, i - 1)
        \o <<"dnat", " ", "to", " ">>
        \o (IF colon /\ bare THEN <<"[">> \o addr \o <<"]">> ELSE addr)
        \o <<":", port>>
        \o SubSeq(l, i + 5, Len(l))

\* C5: a line with an un-destined `xt target "DNAT"` and a dport match is
\* rewritten to `dnat to ADDR:PORT` exactly when the companion lines of the
\* text give one distinct address for its protocol and port, and is left as
\* it is otherwise.
C5_DnatInference ==
    pc \in {"lib_again", "lib_done"} =>
        LET ls == splitlines(txt)
            out == splitlines(norm1[1])
        IN  \A k \in 1..Len(ls) :
                Undestined(ls[k]) =>
                    LET l == ls[k]
                        proto == l[FirstDport(l)]
                        port == l[FirstDport(l) + 4]
                        addrs == CompanionAddrs(ls, proto, port)
                    IN  /\ k <= Len(out)
                        /\ out[k] = IF Cardinality(addrs) = 1
                                    THEN Destined(l, CHOOSE a \in addrs : TRUE, port)
                                    ELSE l

\* A text of which one DNAT line is rewritten with a bracketed address and
\* another is left as it is.
C5_Witness ==
    /\ pc = "lib_again"
    /\ LET ls == splitlines(txt)
           out == splitlines(norm1[1])
       IN  /\ \E k \in 1..Len(ls) :
                 /\ Undestined(ls[k]) /\ out[k] # ls[k]
                 /\ Contains(out[k], <<"[", "fd00::1", "]", ":">>)
           /\ \E k \in 1..Len(ls) : Undestined(ls[k]) /\ out[k] = ls[k]

----------------------------------------------------------------------------
(* Properties of the command line driver.                                  *)

HasComment(t) == \E i \in 1..Len(t) : t[i] \in {"#", "//", "/*"}

\* The delta of two raw texts when comments go first.
DeltaStrippedFirst(glob, cmp) ==
    LET b == parse(input_filter(strip_comments(glob)))
        c == parse(input_filter(strip_comments(cmp)))
    IN  render_declarative_delta(c[1], b[1])

\* C8: in the diff run the normalizer gets comment-free text, and the delta
\* written is the one of the texts without their comments.
C8_StripBeforeNormalize ==
    /\ pc = "filter" => ~HasComment(glob_txt) /\ ~HasComment(comp_txt)
    /\ (pc = "exit" /\ rc = Some(0) /\ Len(argv) = 2) =>
          stdout = <<DeltaStrippedFirst(argv[1].text, argv[2].text)>>

\* C9: a run ends with one exit code: 2 and the usage message for a wrong
\* argument count, before any read; 1 and a diagnostic for an unreadable
\* input; 1 and a diagnostic for an input that does not parse; 0 otherwise;
\* with 1 or 2 nothing was written to stdout.
C9_ExitCodes ==
    LET n == Len(argv) + 1
        usage == n \notin {2, 3}
        unreadable == \E i \in 1..Len(argv) : ~argv[i].readable
        Fails(i) == parse(input_filter(argv[i].text)) = ValueError
        unparsable == n = 3 /\ ~unreadable /\ (Fails(1) \/ Fails(2))
    IN  /\ pc # "exit" => rc = None
        /\ pc = "exit" =>
              /\ rc \in {Some(0), Some(1), Some(2)}
              /\ usage => (rc = Some(2) /\ stderr = <<"usage">> /\ reads = 0)
              /\ (~usage /\ unreadable) => (rc = Some(1) /\ stderr = <<"read">>)
              /\ unparsable => (rc = Some(1) /\ stderr = <<"parse">>)
              /\ (~usage /\ ~unreadable /\ ~unparsable)
                    => (rc = Some(0) /\ stderr = <<>> /\ Len(stdout) = 1)
              /\ rc \in {Some(1), Some(2)} => stdout = <<>>

\* A diff run that ended with code 1 on an input that does not parse, both
\* inputs read.
C9_Witness ==
    /\ pc = "exit" /\ rc = Some(1) /\ stderr = <<"parse">>
    /\ reads = 2 /\ stdout = <<>>

====
